---- MODULE Spec2Model ----
(***************************************************************************)
(* A model of src/src/parsing.ts: MarkdownParser, the recursive-descent     *)
(* parser behind parse(markdown).                                          *)
(*                                                                         *)
(* The parser is modelled as the machine that runs it: the cursor          *)
(* (chars, index), the call stack of parseNext and parseCurrent            *)
(* activations with their locals, and the control position pc.  parseText, *)
(* matches, match and lookAhead do not recurse into parseNext and are      *)
(* operators, computed as the code computes them.  A MismatchError is a    *)
(* value in flight (pc = "throw") that leaves frames until a handler takes *)
(* it; pc = "fail" is parse ending with the error uncaught.                *)
(*                                                                         *)
(* Conventions.  A character is a one-character string; a delimiter or a   *)
(* lookahead is a sequence of characters.  index counts from 0 as in the   *)
(* code, so this.chars[this.index] is chars[index + 1].  A string the      *)
(* parser builds (text, content, alt, src, href) is kept as the sequence   *)
(* of the input positions (0-based) its characters were copied from: the   *)
(* code only ever appends this.current to such a string, tests it for      *)
(* emptiness and trims it.  Str reads the characters back, and StrNode     *)
(* turns a node into the node the code returns.                            *)
(***************************************************************************)
EXTENDS Integers, Sequences, FiniteSets, TLC

VARIABLES
    chars,   \* this.chars: the code points of the input
    index,   \* this.index
    stack,   \* the activations of parseNext and parseCurrent, innermost last
    pc,      \* where control is: init, loop, enter, resume, ret, throw, done, fail
    ret,     \* the value being returned to the caller, or the error in flight
    result,  \* what parse returned
    steps    \* history: the steps taken so far

vars == <<chars, index, stack, pc, ret, result, steps>>

-----------------------------------------------------------------------------
(* Bounds of the checked inputs. *)

\* every string over Alphabet up to this length is an input
MaxLen == 3

\* every string over EmphasisAlphabet, NestAlphabet, CodeAlphabet up to this length
MaxFocus == 5

\* the length of a plain segment in the templates
MaxSeg == 2

\* every string over BlockAlphabet up to this length
MaxBlock == 6

-----------------------------------------------------------------------------
(* Characters and inputs. *)

BS == "\\"
LF == "\n"
CR == "\r"
\* the backtick, which a TLA+ string cannot hold
BT == "backtick"

Alphabet == {"a", " ", BS, LF, CR, "*", "_", "~", BT, "!", "[", "]", "(", ")"}

\* without the space and the underscore, which the inline templates hold
TotalAlphabet == Alphabet \ {" ", "_"}

\* neither a backslash, nor a newline character, nor an opener of markup
PlainChars == {"a", " ", "]"}

EmphasisAlphabet == {"a", "*", "~", BS}
NestAlphabet == {"a", LF, "*", "["}
CodeAlphabet == {"a", " ", BT, BS}
BlockAlphabet == {"a", LF, CR}

Strings(S, n) == UNION {[1..k -> S] : k \in 0..n}

PlainSegs == Strings(PlainChars, MaxSeg) \ {<<>>}

\* s1 + separator + s2, the separator one or two newline sequences
BlockTemplates ==
    {s1 \o n1 \o n2 \o s2 :
        s1 \in PlainSegs, s2 \in PlainSegs,
        n1 \in {<<CR, LF>>, <<CR>>, <<LF>>},
        n2 \in {<<>>, <<CR, LF>>, <<CR>>, <<LF>>}}

\* opener + s + closer for the inline constructs
InlineTemplates ==
    {o \o s \o c :
        s \in Strings(PlainChars, MaxSeg),
        o \in {<<BT>>, <<BT, BT>>, <<BT, BT, BT>>, <<"*">>, <<"*", "*">>, <<"_">>},
        c \in {<<BT>>, <<BT, BT>>, <<BT, BT, BT>>, <<"*">>, <<"*", "*">>, <<"_">>}}
    \cup {o \o s \o <<"]", "(">> \o t \o c :
            s \in Strings({"a", "*"}, MaxSeg), t \in Strings({"a"}, 1),
            o \in {<<"[">>, <<"!", "[">>}, c \in {<<>>, <<")">>}}

Templates == BlockTemplates \cup InlineTemplates

Inputs ==
    Strings(Alphabet, MaxLen)
    \cup Strings(EmphasisAlphabet, MaxFocus)
    \cup Strings(NestAlphabet, MaxFocus)
    \cup Strings(CodeAlphabet, MaxFocus)
    \cup Strings(BlockAlphabet, MaxBlock)
    \cup Templates

-----------------------------------------------------------------------------
(* Values. *)

Null == [type |-> "null"]

MismatchError == [type |-> "MismatchError"]

\* what chars[i] is past the end of the array
Undefined == <<"undefined">>

NEWLINE == << <<CR, LF>>, <<CR>>, <<LF>> >>

\* mutant: only a newline sequence followed by the same one
samePairs == [k \in 1..Len(NEWLINE) |-> NEWLINE[k] \o NEWLINE[k]]

NEW_PARAGRAPH ==
    [k \in 1..(Len(NEWLINE) * Len(NEWLINE)) |->
        NEWLINE[((k - 1) \div Len(NEWLINE)) + 1] \o NEWLINE[((k - 1) % Len(NEWLINE)) + 1]]

Str(t) == [k \in 1..Len(t) |-> chars[t[k] + 1]]

-----------------------------------------------------------------------------
(* The cursor. *)

length == Len(chars)

done(i) == i >= length

current(i) == IF i < length THEN chars[i + 1] ELSE "undefined"

getSlice(start, end) ==
    IF start >= length THEN <<>>
    ELSE SubSeq(chars, start + 1, IF end < length THEN end ELSE length)

lookAhead(i, n) ==
    IF n = 1 THEN (IF i < length THEN <<chars[i + 1]>> ELSE Undefined)
    ELSE getSlice(i, i + n)

matches(i, lookahead) ==
    \E k \in DOMAIN lookahead : lookAhead(i, Len(lookahead[k])) = lookahead[k]

\* the index after the match, or the MismatchError thrown with the cursor left alone
match(i, lookahead) ==
    IF matches(i, lookahead)
    THEN LET k == CHOOSE k \in DOMAIN lookahead :
                      /\ lookAhead(i, Len(lookahead[k])) = lookahead[k]
                      /\ \A j \in DOMAIN lookahead :
                            lookAhead(i, Len(lookahead[j])) = lookahead[j] => k <= j
         IN [thrown |-> FALSE, index |-> i + Len(lookahead[k])]
    ELSE [thrown |-> TRUE, index |-> i]

RECURSIVE parseTextLoop(_, _, _)
parseTextLoop(i, end, text) ==
    IF done(i) THEN [text |-> text, index |-> i]
    ELSE IF current(i) = BS /\ i + 1 < length
         THEN parseTextLoop(i + 2, end, Append(text, i + 1))
    ELSE IF end = <<>> \/ matches(i, <<end>>) \/ matches(i, NEWLINE)
         THEN [text |-> text, index |-> i]
    ELSE parseTextLoop(i + 1, end, Append(text, i))

\* mutant: the backslash is a character like any other
RECURSIVE parseTextNoEscape(_, _)
parseTextNoEscape(i, end) ==
    IF done(i) \/ end = <<>> \/ matches(i, <<end>>) \/ matches(i, NEWLINE)
    THEN [text |-> <<>>, index |-> i]
    ELSE LET tail == parseTextNoEscape(i + 1, end)
         IN [text |-> <<i>> \o tail.text, index |-> tail.index]

parseText(i, end) == parseTextLoop(i, end, <<>>)

WhiteSpace == {" ", "\t", LF, CR}

trim(t) ==
    LET keep == {k \in 1..Len(t) : chars[t[k] + 1] \notin WhiteSpace}
    IN IF keep = {} THEN <<>>
       ELSE SubSeq(t, CHOOSE k \in keep : \A j \in keep : k <= j,
                      CHOOSE k \in keep : \A j \in keep : j <= k)

-----------------------------------------------------------------------------
(* Nodes and the root under construction. *)

textNode(text) == [type |-> "text", content |-> text]

emptyParagraph == [type |-> "paragraph", children |-> <<>>]

emptyFragment == [type |-> "fragment", children |-> <<>>]

lastChild(root) ==
    IF Len(root.children) = 0 THEN Null ELSE root.children[Len(root.children)]

\* parent.children.push(node), parent the last child when it is a paragraph, else root
push(root, node) ==
    LET n == Len(root.children) IN
    IF lastChild(root).type = "paragraph"
    THEN [root EXCEPT !.children[n].children = Append(@, node)]
    ELSE [root EXCEPT !.children = Append(@, node)]

\* mutant: the children are wrapped at every blank line
promoteAlwaysWrap(root, text) ==
    IF text # <<>> \/ Len(root.children) > 0
    THEN LET wrapped == [root EXCEPT !.children =
                            <<[type |-> "paragraph", children |-> root.children]>>]
             filled == IF text # <<>> THEN push(wrapped, textNode(text)) ELSE wrapped
         IN [root |-> [filled EXCEPT !.children = Append(@, emptyParagraph)],
             text |-> <<>>]
    ELSE [root |-> root, text |-> text]

\* the blank-line branch once the newlines are consumed
promote(root, text) ==
    IF text # <<>> \/ Len(root.children) > 0
    THEN LET wrapped ==
                 IF lastChild(root).type # "paragraph"
                 THEN [root EXCEPT !.children =
                          <<[type |-> "paragraph", children |-> root.children]>>]
                 ELSE root
             filled == IF text # <<>> THEN push(wrapped, textNode(text)) ELSE wrapped
         IN [root |-> [filled EXCEPT !.children = Append(@, emptyParagraph)],
             text |-> <<>>]
    ELSE [root |-> root, text |-> text]

RECURSIVE skipNewlines(_)
skipNewlines(i) ==
    IF current(i) \in {CR, LF} THEN skipNewlines(i + 1) ELSE i

\* mutant: the root is returned even with a single child
finishNoCollapse(root, text) ==
    LET flushed == IF text # <<>> THEN push(root, textNode(text)) ELSE root
        lastNode == lastChild(flushed)
    IN IF lastNode.type = "paragraph" /\ Len(lastNode.children) = 0
       THEN [flushed EXCEPT !.children = SubSeq(@, 1, Len(@) - 1)]
       ELSE flushed

\* what parseNext returns once its loop has ended
finish(root, text) ==
    LET flushed == IF text # <<>> THEN push(root, textNode(text)) ELSE root
        lastNode == lastChild(flushed)
        popped ==
            IF lastNode.type = "paragraph" /\ Len(lastNode.children) = 0
            THEN [flushed EXCEPT !.children = SubSeq(@, 1, Len(@) - 1)]
            ELSE flushed
    IN IF Len(popped.children) = 1 THEN popped.children[1] ELSE popped

-----------------------------------------------------------------------------
(* Activations. *)

parseNextFrame(end) ==
    [fn |-> "parseNext", end |-> end, root |-> emptyFragment, text |-> <<>>, index |-> 0]

parseCurrentFrame(char) ==
    [fn |-> "parseCurrent", char |-> char, delimiter |-> <<>>]

top == stack[Len(stack)]

rest == SubSeq(stack, 1, Len(stack) - 1)

replaceTop(f) == [stack EXCEPT ![Len(stack)] = f]

\* mutant: only the terminator stops the loop
stopsAtTerminator(i, end) == end # <<>> /\ matches(i, <<end>>)

\* the stop test of the parseNext loop
stops(i, end) == end # <<>> /\ (matches(i, <<end>>) \/ matches(i, NEWLINE))

\* mutant: the handler throws every error on
handledNever(error) == FALSE

\* the handler of parseNext takes the error
handled(error) == error = MismatchError

-----------------------------------------------------------------------------
(* The leaf constructs of parseCurrent: what the call does to the cursor   *)
(* and how it ends (a node, null, or the error thrown).                    *)

returned(node, i) == [kind |-> "return", node |-> node, index |-> i]

thrown(i) == [kind |-> "throw", node |-> MismatchError, index |-> i]

\* mutant: no test for three backticks after the content
parseCodeUnfenced(i) ==
    IF matches(i, << <<BT, BT, BT>> >>) THEN returned(Null, i)
    ELSE LET delimiter == IF matches(i, << <<BT, BT>> >>) THEN <<BT, BT>> ELSE <<BT>>
             open == match(i, <<delimiter>>)
             scan == parseText(open.index, delimiter)
             close == match(scan.index, <<delimiter>>)
         IN IF open.thrown THEN thrown(open.index)
            ELSE IF close.thrown THEN thrown(close.index)
            ELSE returned([type |-> "code", content |-> trim(scan.text)], close.index)

parseCode(i) ==
    IF matches(i, << <<BT, BT, BT>> >>) THEN returned(Null, i)
    ELSE LET delimiter == IF matches(i, << <<BT, BT>> >>) THEN <<BT, BT>> ELSE <<BT>>
             open == match(i, <<delimiter>>)
             scan == parseText(open.index, delimiter)
             content == trim(scan.text)
             close == match(scan.index, <<delimiter>>)
         IN IF open.thrown THEN thrown(open.index)
            ELSE IF matches(scan.index, << <<BT, BT, BT>> >>) THEN returned(Null, scan.index)
            ELSE IF close.thrown THEN thrown(close.index)
            ELSE returned([type |-> "code", content |-> content], close.index)

\* from the "](" on: shared by the image and the link
parseTarget(i) ==
    LET open == match(i, << <<"]", "(">> >>)
        scan == parseText(open.index, <<")">>)
        close == match(scan.index, << <<")">> >>)
    IN [thrown |-> open.thrown \/ close.thrown,
        index |-> IF open.thrown THEN open.index ELSE close.index,
        text |-> scan.text]

-----------------------------------------------------------------------------
(* The machine. *)

Init ==
    /\ chars \in Inputs
    /\ index = 0
    /\ stack = <<>>
    /\ pc = "init"
    /\ ret = Null
    /\ result = Null
    /\ steps = 0

\* every step is counted
tick == steps' = steps + 1

\* parse(markdown): new MarkdownParser(input).parseNext()
parse ==
    /\ pc = "init"
    /\ tick
    /\ stack' = <<parseNextFrame(<<>>)>>
    /\ pc' = "loop"
    /\ UNCHANGED <<chars, index, ret, result>>

\* parseNext, the loop: escaped characters first
escapedText ==
    /\ pc = "loop"
    /\ tick
    /\ ~done(index)
    /\ LET escaped == parseText(index, <<>>) IN
        /\ escaped.text # <<>>
        /\ stack' = replaceTop([top EXCEPT !.text = @ \o escaped.text])
        /\ index' = escaped.index
    /\ UNCHANGED <<chars, pc, ret, result>>

\* parseNext, the loop ends (the input is exhausted, or the terminator or a
\* newline is ahead) and the call returns
parseNextReturn ==
    /\ pc = "loop"
    /\ tick
    /\ \/ done(index)
       \/ parseText(index, <<>>).text = <<>> /\ stops(index, top.end)
    /\ LET node == finish(top.root, top.text) IN
        IF Len(stack) = 1
        THEN /\ result' = node
             /\ pc' = "done"
             /\ ret' = ret
        ELSE /\ ret' = node
             /\ pc' = "resume"
             /\ result' = result
    /\ stack' = rest
    /\ UNCHANGED <<chars, index>>

\* parseNext, the loop: a blank line
newParagraph ==
    /\ pc = "loop"
    /\ tick
    /\ ~done(index)
    /\ parseText(index, <<>>).text = <<>>
    /\ ~stops(index, top.end)
    /\ matches(index, NEW_PARAGRAPH)
    /\ index' = skipNewlines(index)
    /\ LET p == promote(top.root, top.text) IN
        stack' = replaceTop([top EXCEPT !.root = p.root, !.text = p.text])
    /\ UNCHANGED <<chars, pc, ret, result>>

\* parseNext, the loop: const {index} = this; node = this.parseCurrent()
dispatch ==
    /\ pc = "loop"
    /\ tick
    /\ ~done(index)
    /\ parseText(index, <<>>).text = <<>>
    /\ ~stops(index, top.end)
    /\ ~matches(index, NEW_PARAGRAPH)
    /\ stack' = Append(replaceTop([top EXCEPT !.index = index]),
                       parseCurrentFrame(current(index)))
    /\ pc' = "enter"
    /\ UNCHANGED <<chars, index, ret, result>>

\* mutant: the delimiter is always the single character
emphasisDelimiterSingle(i, char) == <<char>>

\* const delimiter = this.matches('**') ? '**' : char
emphasisDelimiter(i, char) ==
    IF matches(i, << <<"*", "*">> >>) THEN <<"*", "*">> ELSE <<char>>

\* parseCurrent, case '*', '_': up to the recursive call
emphasisOpen ==
    /\ pc = "enter"
    /\ tick
    /\ top.char \in {"*", "_"}
    /\ LET delimiter == emphasisDelimiter(index, top.char) IN
        /\ index' = index + Len(delimiter)
        /\ stack' = Append(replaceTop([top EXCEPT !.delimiter = delimiter]),
                           parseNextFrame(delimiter))
    /\ pc' = "loop"
    /\ UNCHANGED <<chars, ret, result>>

\* parseCurrent, case '~': up to the recursive call
strikeOpen ==
    /\ pc = "enter"
    /\ tick
    /\ top.char = "~"
    /\ LET open == match(index, << <<"~", "~">> >>) IN
        /\ index' = open.index
        /\ IF open.thrown
           THEN /\ pc' = "throw"
                /\ ret' = MismatchError
                /\ stack' = stack
           ELSE /\ pc' = "loop"
                /\ ret' = ret
                /\ stack' = Append(replaceTop([top EXCEPT !.delimiter = <<"~", "~">>]),
                                   parseNextFrame(<<"~", "~">>))
    /\ UNCHANGED <<chars, result>>

\* parseCurrent, case '[': up to the recursive call
linkOpen ==
    /\ pc = "enter"
    /\ tick
    /\ top.char = "["
    /\ index' = index + 1
    /\ stack' = Append(stack, parseNextFrame(<<"]">>))
    /\ pc' = "loop"
    /\ UNCHANGED <<chars, ret, result>>

\* how a call of parseCurrent that ends here leaves: by return (the frame is
\* gone) or with the error in flight in its frame
leave(outcome) ==
    /\ index' = outcome.index
    /\ ret' = outcome.node
    /\ IF outcome.kind = "throw"
       THEN pc' = "throw" /\ stack' = stack
       ELSE pc' = "ret" /\ stack' = rest
    /\ UNCHANGED <<chars, result>>

\* parseCurrent, case backtick
code ==
    /\ pc = "enter"
    /\ tick
    /\ top.char = BT
    /\ \E outcome \in {parseCode(index)} : leave(outcome)

\* parseCurrent, case '!'
image ==
    /\ pc = "enter"
    /\ tick
    /\ top.char = "!"
    /\ \E bracket \in {match(index + 1, << <<"[">> >>)} :
       \E alt \in {parseText(bracket.index, <<"]">>)} :
       \E target \in {parseTarget(alt.index)} :
            leave(IF bracket.thrown THEN thrown(bracket.index)
                  ELSE IF target.thrown THEN thrown(target.index)
                  ELSE returned([type |-> "image", src |-> target.text, alt |-> alt.text],
                                target.index))

\* parseCurrent, default
default ==
    /\ pc = "enter"
    /\ tick
    /\ top.char \notin {"*", "_", "~", BT, "!", "["}
    /\ leave(returned(Null, index))

\* parseCurrent, case '*', '_': after the recursive call
emphasisClose ==
    /\ pc = "resume"
    /\ tick
    /\ top.char \in {"*", "_"}
    /\ LET close == match(index, <<top.delimiter>>) IN
        leave(IF close.thrown THEN thrown(close.index)
              ELSE returned([type |-> IF Len(top.delimiter) = 1 THEN "italic" ELSE "bold",
                             children |-> ret],
                            close.index))

\* parseCurrent, case '~': after the recursive call
strikeClose ==
    /\ pc = "resume"
    /\ tick
    /\ top.char = "~"
    /\ LET close == match(index, << <<"~", "~">> >>) IN
        leave(IF close.thrown THEN thrown(close.index)
              ELSE returned([type |-> "strike", children |-> ret], close.index))

\* parseCurrent, case '[': after the recursive call
linkClose ==
    /\ pc = "resume"
    /\ tick
    /\ top.char = "["
    /\ \E target \in {parseTarget(index)} :
        leave(IF target.thrown THEN thrown(target.index)
              ELSE returned([type |-> "link", href |-> target.text, children |-> ret],
                            target.index))

\* an error leaves parseCurrent, which has no handler
unwind ==
    /\ pc = "throw"
    /\ tick
    /\ top.fn = "parseCurrent"
    /\ stack' = rest
    /\ pc' = IF Len(stack) = 1 THEN "fail" ELSE "throw"
    /\ UNCHANGED <<chars, index, ret, result>>

\* the error reaches the try of parseNext: node stays null, or the error is
\* thrown on
catch ==
    /\ pc = "throw"
    /\ tick
    /\ top.fn = "parseNext"
    /\ IF handled(ret)
       THEN /\ pc' = "ret"
            /\ ret' = Null
            /\ stack' = stack
       ELSE /\ pc' = IF Len(stack) = 1 THEN "fail" ELSE "throw"
            /\ ret' = ret
            /\ stack' = rest
    /\ UNCHANGED <<chars, index, result>>

\* mutant: the cursor is not put back
backtrackedNoSeek(f) == [text |-> Append(f.text, index), index |-> index + 1]

\* the text the failed attempt's first character is added to, and the cursor after it
backtracked(f) == [text |-> Append(f.text, f.index), index |-> f.index + 1]

\* parseNext, the loop: node === null
backtrack ==
    /\ pc = "ret"
    /\ tick
    /\ ret = Null
    /\ LET b == backtracked(top) IN
        /\ index' = b.index
        /\ stack' = replaceTop([top EXCEPT !.text = b.text])
    /\ pc' = "loop"
    /\ UNCHANGED <<chars, ret, result>>

\* parseNext, the loop: the node is added
appendNode ==
    /\ pc = "ret"
    /\ tick
    /\ ret # Null
    /\ LET flushed == IF top.text # <<>> THEN push(top.root, textNode(top.text))
                      ELSE top.root IN
        stack' = replaceTop([top EXCEPT !.root = push(flushed, ret), !.text = <<>>])
    /\ pc' = "loop"
    /\ ret' = Null
    /\ UNCHANGED <<chars, index, result>>

Next ==
    \/ parse
    \/ escapedText
    \/ parseNextReturn
    \/ newParagraph
    \/ dispatch
    \/ emphasisOpen
    \/ strikeOpen
    \/ linkOpen
    \/ code
    \/ image
    \/ default
    \/ emphasisClose
    \/ strikeClose
    \/ linkClose
    \/ unwind
    \/ catch
    \/ backtrack
    \/ appendNode

Spec == Init /\ [][Next]_vars

\* the same machine on every string over TotalAlphabet and on the inline
\* templates
TotalInit ==
    /\ chars \in Strings(TotalAlphabet, MaxLen) \cup InlineTemplates
    /\ index = 0
    /\ stack = <<>>
    /\ pc = "init"
    /\ ret = Null
    /\ result = Null
    /\ steps = 0

TotalSpec == TotalInit /\ [][Next]_vars

-----------------------------------------------------------------------------
(* Reading a tree. *)

RECURSIVE StrNode(_)
StrNode(n) ==
    CASE n.type \in {"fragment", "paragraph"} ->
            [type |-> n.type, children |-> [k \in 1..Len(n.children) |-> StrNode(n.children[k])]]
      [] n.type \in {"italic", "bold", "strike"} ->
            [type |-> n.type, children |-> StrNode(n.children)]
      [] n.type = "link" ->
            [type |-> "link", href |-> Str(n.href), children |-> StrNode(n.children)]
      [] n.type = "image" ->
            [type |-> "image", src |-> Str(n.src), alt |-> Str(n.alt)]
      [] n.type \in {"text", "code"} ->
            [type |-> n.type, content |-> Str(n.content)]
      [] OTHER -> n

Kids(n) ==
    CASE n.type \in {"fragment", "paragraph"} -> n.children
      [] n.type \in {"italic", "bold", "strike", "link"} -> <<n.children>>
      [] OTHER -> <<>>

RECURSIVE HasType(_, _)
HasType(n, t) == n.type = t \/ \E k \in DOMAIN Kids(n) : HasType(Kids(n)[k], t)

\* no fragment of the tree has exactly one child
RECURSIVE NoSingleFragment(_)
NoSingleFragment(n) ==
    /\ n.type = "fragment" => Len(n.children) # 1
    /\ \A k \in DOMAIN Kids(n) : NoSingleFragment(Kids(n)[k])

\* no paragraph is found under an italic, bold, strike or link node
RECURSIVE InlineHoldsNoParagraph(_)
InlineHoldsNoParagraph(n) ==
    /\ n.type \in {"italic", "bold", "strike", "link"} => ~HasType(n.children, "paragraph")
    /\ \A k \in DOMAIN Kids(n) : InlineHoldsNoParagraph(Kids(n)[k])

RECURSIVE Concat(_)
Concat(ss) == IF ss = <<>> THEN <<>> ELSE Head(ss) \o Concat(Tail(ss))

\* the input positions copied into the literal strings of a tree, in document order
RECURSIVE Literal(_)
Literal(n) ==
    CASE n.type \in {"text", "code"} -> n.content
      [] n.type = "image" -> n.alt \o n.src
      [] n.type = "link" -> Literal(n.children) \o n.href
      [] n.type \in {"italic", "bold", "strike"} -> Literal(n.children)
      [] n.type \in {"fragment", "paragraph"} ->
            Concat([k \in 1..Len(n.children) |-> Literal(n.children[k])])
      [] OTHER -> <<>>

Count(s, p) == Cardinality({k \in DOMAIN s : s[k] = p})

\* the positions of the characters that follow an unescaped backslash
RECURSIVE EscapedFrom(_)
EscapedFrom(i) ==
    IF i >= Len(chars) THEN {}
    ELSE IF chars[i + 1] = BS /\ i + 1 < Len(chars) THEN {i + 1} \cup EscapedFrom(i + 2)
    ELSE EscapedFrom(i + 1)

Escaped == EscapedFrom(0)

Openers == {"*", "_", "~", BT, "!", "["}

IsPlain(s) == \A k \in DOMAIN s : s[k] \notin Openers \cup {BS, LF, CR}

Text(s) == [type |-> "text", content |-> s]

Wrap(type, node) == [type |-> type, children |-> node]

Group(type, nodes) == [type |-> type, children |-> nodes]

\* the input as segment, run of newline characters, segment
NewlineAt == {k \in DOMAIN chars : chars[k] \in {CR, LF}}

FirstNewline == CHOOSE k \in NewlineAt : \A j \in NewlineAt : k <= j

LastNewline == CHOOSE k \in NewlineAt : \A j \in NewlineAt : j <= k

Segment1 == SubSeq(chars, 1, FirstNewline - 1)

Separator == SubSeq(chars, FirstNewline, LastNewline)

Segment2 == SubSeq(chars, LastNewline + 1, Len(chars))

TwoSegments ==
    /\ NewlineAt # {}
    /\ Segment1 # <<>> /\ IsPlain(Segment1)
    /\ Segment2 # <<>> /\ IsPlain(Segment2)
    /\ \A k \in FirstNewline..LastNewline : k \in NewlineAt

NewlineSequences == {<<CR, LF>>, <<CR>>, <<LF>>}

BlankLines == {n1 \o n2 : n1 \in NewlineSequences, n2 \in NewlineSequences}

\* the input is opener + s + closer, s plain
Enclosed(opener, closer) ==
    /\ Len(chars) >= Len(opener) + Len(closer)
    /\ SubSeq(chars, 1, Len(opener)) = opener
    /\ SubSeq(chars, Len(chars) - Len(closer) + 1, Len(chars)) = closer
    /\ IsPlain(SubSeq(chars, Len(opener) + 1, Len(chars) - Len(closer)))

Inner(opener, closer) == SubSeq(chars, Len(opener) + 1, Len(chars) - Len(closer))

\* String.prototype.trim on a string of characters
TrimString(s) ==
    LET keep == {k \in DOMAIN s : s[k] \notin WhiteSpace}
    IN IF keep = {} THEN <<>>
       ELSE SubSeq(s, CHOOSE k \in keep : \A j \in keep : k <= j,
                      CHOOSE k \in keep : \A j \in keep : j <= k)

NodeTypes ==
    {"fragment", "paragraph", "text", "italic", "bold", "strike", "code", "link", "image"}

-----------------------------------------------------------------------------
(* C1.  Totality: for every input parse ends (no step is ever missing     *)
(* before the return, and the steps are bounded in the length of the       *)
(* input) and returns one node, and the MismatchError that match throws is *)
(* taken by the handler of parseNext: it never leaves parse.               *)

\* a call of parseNext on n characters takes at most S(n) steps, where
\* S(0) = 1 and S(n) <= 2 * S(n - 1) + 6: one failed attempt on the first
\* character, then the rest of the loop
StepBound == 7 * 2 ^ Len(chars)

C1_Totality ==
    /\ pc # "fail"
    /\ pc = "throw" => ret = MismatchError
    /\ steps <= StepBound
    /\ pc # "done" => ENABLED Next
    /\ pc = "done" => (stack = <<>> /\ result.type \in NodeTypes)

\* an unterminated link: match(')') has thrown, and parse has returned the text
C1_Witness ==
    /\ pc = "done"
    /\ chars = <<"[", "a", "]", "(", "a">>
    /\ StrNode(result) = Text(chars)

-----------------------------------------------------------------------------
(* C2.  Paragraph splitting: s1 + separator + s2, with s1 and s2 non-empty  *)
(* and plain and the separator two newline sequences (each CRLF, CR or     *)
(* LF), parses to a fragment of two paragraphs holding text(s1) and        *)
(* text(s2), whatever the separator.                                       *)

C2_ParagraphSplitting ==
    (pc = "done" /\ TwoSegments /\ Separator \in BlankLines) =>
        StrNode(result) =
            Group("fragment", <<Group("paragraph", <<Text(Segment1)>>),
                                Group("paragraph", <<Text(Segment2)>>)>>)

\* LF then CRLF between two segments
C2_Witness ==
    /\ pc = "done"
    /\ TwoSegments
    /\ Separator = <<LF, CR, LF>>
    /\ Len(Segment1) = 2
    /\ Len(result.children) = 2

-----------------------------------------------------------------------------
(* C7.  Single-child collapsing: what a call of parseNext returns, nested   *)
(* or not, is never a fragment of one child, so no fragment of a returned  *)
(* tree has exactly one child; parse("") is the fragment without children  *)
(* and parse of a non-empty plain string is the bare text node of it.      *)

C7_Collapsing ==
    /\ pc = "resume" => NoSingleFragment(ret)
    /\ pc = "done" =>
        /\ NoSingleFragment(result)
        /\ chars = <<>> => result = emptyFragment
        /\ (chars # <<>> /\ IsPlain(chars)) => StrNode(result) = Text(chars)

\* a nested call returned its only child, and so did the outer one
C7_Witness ==
    /\ pc = "done"
    /\ result.type = "italic"
    /\ result.children.type = "text"

-----------------------------------------------------------------------------
(* C8.  Three backticks never open a code span: three backticks + s +      *)
(* three backticks, s plain, parses to the single text node of the whole   *)
(* input, without a code node; one backtick + s + one backtick, s plain    *)
(* and not blank, parses to code with content trim(s).                     *)

C8_TripleBacktick ==
    pc = "done" =>
        /\ Enclosed(<<BT, BT, BT>>, <<BT, BT, BT>>) =>
            /\ StrNode(result) = Text(chars)
            /\ ~HasType(result, "code")
        /\ (/\ Enclosed(<<BT>>, <<BT>>)
            /\ TrimString(Inner(<<BT>>, <<BT>>)) # <<>>) =>
            StrNode(result) = [type |-> "code", content |-> TrimString(Inner(<<BT>>, <<BT>>))]

C8_Witness ==
    /\ pc = "done"
    /\ chars = <<BT, BT, BT, "a", BT, BT, BT>>
    /\ StrNode(result) = Text(chars)

-----------------------------------------------------------------------------
(* C10.  A failed dispatch leaves no trace: when the attempt parseNext      *)
(* started at position i has failed, by null or by MismatchError, the      *)
(* next step puts the cursor at i + 1 and adds position i, and nothing     *)
(* else, to the pending text; the root's children are those of before the  *)
(* attempt, since no step changes a frame below the innermost one.         *)

C10_FailedDispatch ==
    [][/\ (pc = "ret" /\ ret = Null) =>
            /\ index' = top.index + 1
            /\ stack' = replaceTop([top EXCEPT !.text = Append(top.text, top.index)])
            /\ Str(<<top.index>>) = <<chars[top.index + 1]>>
       /\ pc = "throw" => (pc' \in {"throw", "ret"} /\ (pc' = "ret" => ret' = Null))
       /\ \A k \in 1..(Len(stack) - 1) : stack'[k] = stack[k]
       /\ chars' = chars]_vars

\* an attempt has failed with the cursor well past its first character, in a
\* call that has children already
C10_Witness ==
    /\ pc = "ret"
    /\ ret = Null
    /\ index > top.index + 1
    /\ top.root.children # <<>>

-----------------------------------------------------------------------------
(* C3.  As claimed: a run opened by a single '*' is not closed at a '**',   *)
(* so '*' + s + '**' is literal text and the tree holds neither an italic  *)
(* nor a bold node.                                                        *)

C3_Original ==
    (pc = "done" /\ Enclosed(<<"*">>, <<"*", "*">>) /\ Len(chars) > 3) =>
        /\ StrNode(result) = Text(chars)
        /\ ~HasType(result, "italic")
        /\ ~HasType(result, "bold")

(* C3, amended.  The terminator test of the nested parseNext compares as    *)
(* many characters as the delimiter has, so a run opened by a single '*'   *)
(* is closed at the first '*' of a '**': '*' + s + '**', s plain and not   *)
(* empty, is italic(text(s)) followed by text('*').  A run opened by '**'  *)
(* is not closed at a single '*': '**' + s + '*' is text('*') followed by  *)
(* italic(text(s)), without a bold node.                                   *)

C3_Amended ==
    pc = "done" =>
        /\ (Enclosed(<<"*">>, <<"*", "*">>) /\ Len(chars) > 3) =>
            StrNode(result) =
                Group("fragment", <<Wrap("italic", Text(Inner(<<"*">>, <<"*", "*">>))),
                                    Text(<<"*">>)>>)
        /\ (Enclosed(<<"*", "*">>, <<"*">>) /\ Len(chars) > 3) =>
            StrNode(result) =
                Group("fragment", <<Text(<<"*">>),
                                    Wrap("italic", Text(Inner(<<"*", "*">>, <<"*">>)))>>)

C3_Witness ==
    /\ pc = "done"
    /\ chars = <<"*", "a", "*", "*">>
    /\ HasType(result, "italic")

-----------------------------------------------------------------------------
(* C4.  As claimed: every character that follows an unescaped backslash is  *)
(* copied into the literal content of the tree, once, and the backslash    *)
(* before it is dropped.                                                   *)

C4_Original ==
    pc = "done" =>
        \A p \in Escaped :
            /\ Count(Literal(result), p) = 1
            /\ Count(Literal(result), p - 1) = 0

(* C4, amended.  Every character that follows an unescaped backslash is     *)
(* copied into the literal content of the tree, once, unless it is a       *)
(* white-space character that the trim of a code span's content removes;   *)
(* the backslash before it is dropped; the cursor never stands on such a   *)
(* character, so it is never matched as a delimiter, a terminator or a     *)
(* newline; backslash-star, 'a', backslash-star is the text node "*a*".    *)

C4_Amended ==
    /\ index \notin Escaped
    /\ pc = "done" =>
        /\ \A p \in Escaped :
            /\ \/ Count(Literal(result), p) = 1
               \/ /\ Count(Literal(result), p) = 0
                  /\ chars[p + 1] \in WhiteSpace
                  /\ HasType(result, "code")
            /\ Count(Literal(result), p - 1) = 0
        /\ chars = <<BS, "*", "a", BS, "*">> => StrNode(result) = Text(<<"*", "a", "*">>)

\* an escaped character inside an attempt that failed and was scanned again
C4_Witness ==
    /\ pc = "done"
    /\ chars = <<"*", BS, "*", "a">>
    /\ StrNode(result) = Text(<<"*", "*", "a">>)

-----------------------------------------------------------------------------
(* C5.  As claimed: two segments separated by exactly one newline sequence  *)
(* (one LF, one CR or one CRLF) parse to a tree without a paragraph node.  *)

C5_SingleNewline ==
    (pc = "done" /\ TwoSegments /\ Separator \in NewlineSequences) =>
        ~HasType(result, "paragraph")

-----------------------------------------------------------------------------
(* C6.  As claimed: every paragraph node of a returned tree is a direct     *)
(* child of the returned root.                                             *)

NoDeepParagraph(n) ==
    \A k \in DOMAIN Kids(n) :
        \A j \in DOMAIN Kids(Kids(n)[k]) : ~HasType(Kids(Kids(n)[k])[j], "paragraph")

C6_Original ==
    pc = "done" => (result.type # "paragraph" /\ NoDeepParagraph(result))

(* C6, amended.  No paragraph node is a descendant of another one, and      *)
(* every paragraph node is either the returned root itself (the sole       *)
(* paragraph, returned in place of the fragment) or a direct child of the  *)
(* returned root, which is then a fragment.                                *)

C6_Amended ==
    pc = "done" =>
        IF result.type = "paragraph"
        THEN \A k \in DOMAIN result.children : ~HasType(result.children[k], "paragraph")
        ELSE /\ NoDeepParagraph(result)
             /\ HasType(result, "paragraph") => result.type = "fragment"

\* the sole paragraph, returned as the root
C6_Witness ==
    /\ pc = "done"
    /\ chars = <<"a", LF, LF>>
    /\ result.type = "paragraph"

-----------------------------------------------------------------------------
(* C9.  As claimed: when parseNext runs with a non-empty terminator, has    *)
(* text or children, and a blank line is ahead, the paragraph promotion    *)
(* fires there: the call goes on with a paragraph as its root's last child. *)

NestedBlankLine ==
    /\ pc = "loop"
    /\ top.end # <<>>
    /\ ~done(index)
    /\ parseText(index, <<>>).text = <<>>
    /\ ~matches(index, <<top.end>>)
    /\ matches(index, NEW_PARAGRAPH)
    /\ (top.text # <<>> \/ top.root.children # <<>>)

C9_Original ==
    [][NestedBlankLine =>
        /\ Len(stack') = Len(stack)
        /\ lastChild(stack'[Len(stack')].root).type = "paragraph"]_vars

(* C9, amended.  With a non-empty terminator the loop of parseNext stops at *)
(* any newline sequence, a blank line included, before the blank-line test *)
(* is reached: the paragraph promotion never fires in a nested call, which *)
(* returns there, and no paragraph node is ever found inside an italic,    *)
(* bold, strike or link node.                                              *)

C9_Amended ==
    /\ \A k \in DOMAIN stack :
        (stack[k].fn = "parseNext" /\ stack[k].end # <<>>) =>
            ~HasType(stack[k].root, "paragraph")
    /\ pc = "resume" => ~HasType(ret, "paragraph")
    /\ pc = "done" => InlineHoldsNoParagraph(result)
    /\ NestedBlankLine => ENABLED parseNextReturn

\* a nested call with pending text at a blank line
C9_Witness ==
    /\ NestedBlankLine
    /\ top.text # <<>>
    /\ Len(stack) = 3

====
